---------------------------- MODULE Spec2Model ----------------------------
(***************************************************************************)
(* A model of the document-evaluation core of SystemicInvestingEvaluation: *)
(*   - DocumentProcessor.split_text            (the chunker),              *)
(*   - DocumentProcessor.process_long_document (evaluate every chunk,      *)
(*     parse the returned tables, aggregate, summarize),                   *)
(*   - LLMService.get_evaluation               (response parsing and the   *)
(*     "scores" type contract),                                            *)
(*   - the case store shared by the Evaluate and Manage Cases pages.       *)
(*                                                                         *)
(* Text is a sequence of one-character strings, so that str.split,         *)
(* str.join, str.strip and str.startswith are modelled by what they do.    *)
(***************************************************************************)
EXTENDS Integers, Sequences, FiniteSets, TLC

VARIABLES
    \* ---- split_text ----
    text,           \* the argument `text`
    max_tokens,     \* the argument `max_tokens`
    blocks,         \* the returned list of blocks
    split_pc        \* "input" before the call, "done" after it

VARIABLES
    \* ---- process_long_document ----
    pld_pc,                 \* "start", "eval", "sumJ", "sumI", "returned", "raised"
    chunk_results,          \* the list chunk_results
    hallmark_order,         \* insertion order of the three defaultdicts' keys
    hallmark_scores,        \* hallmark -> list of scores (tenths)
    hallmark_justifications,\* hallmark -> list of justification cells
    hallmark_indicators,    \* hallmark -> list of indicator cells
    final_scores,           \* hallmark -> score (tenths)
    final_justifications,   \* hallmark -> text
    final_indicators,       \* hallmark -> text
    sum_idx,                \* position of the running summarization loop
    raised,                 \* the exception that left process_long_document
    calls,                  \* the get_evaluation calls issued so far, in order
    llm_tables              \* what the LLM put into each chunk's table (rows of cells)

VARIABLES
    \* ---- get_evaluation ----
    ge_pc,          \* "call", "returned", "raised"
    ge_response,    \* the completion's text (and what its scores field is)
    ge_result,      \* the value returned
    ge_error        \* the message of the exception raised

VARIABLES
    \* ---- the case store and the two pages that write it ----
    cache_file,     \* cache/case_cache.pkl: the pickled dict, in key order
    clock,          \* datetime.now()
    e_pc,           \* Evaluate page: "idle", "evaluating", "saving"
    e_name,         \* Evaluate page: case_name
    e_scores,       \* Evaluate page: result['scores']
    e_cache,        \* save_case_cache: the dict it loaded
    m_pc,           \* Manage Cases page: "idle", "loaded", "rerun"
    m_event,        \* Manage Cases page: the widget event of the running script
    m_cache,        \* Manage Cases page: the dict loaded at lines 18-22
    m_view,         \* Manage Cases page: the widgets drawn by the last run
    last_selected_case, \* st.session_state['last_selected_case']
    delete_mode,    \* st.session_state['delete_mode_<case>'], per case
    delete_success, \* st.session_state['delete_success']
    intended        \* the store as it is if every completed write took effect

VARIABLES
    \* ---- the Evaluate page's table parser ----
    result_table,   \* result['table'], the markdown text
    data,           \* the list data: the parsed rows, each a list of cells
    parse_pc,       \* "input", "parsed", "raised"
    table_written   \* what the LLM put into the table (rows of cells)

splitVars == <<text, max_tokens, blocks, split_pc>>

tableVars == <<result_table, data, parse_pc, table_written>>

geVars == <<ge_pc, ge_response, ge_result, ge_error>>

storeVars == <<cache_file, clock, e_pc, e_name, e_scores, e_cache, m_pc,
               m_event, m_cache, m_view, last_selected_case, delete_mode,
               delete_success, intended>>

pldVars == <<pld_pc, chunk_results, hallmark_order, hallmark_scores,
             hallmark_justifications, hallmark_indicators, final_scores,
             final_justifications, final_indicators, sum_idx, raised, calls,
             llm_tables>>

vars == <<splitVars, pldVars, geVars, tableVars, storeVars>>

-----------------------------------------------------------------------------
(* Bounds of the model *)

\* longest document text, in characters
MaxLen == 5
\* largest token budget handed to split_text
MaxBudget == 3

-----------------------------------------------------------------------------
(* Strings *)

NL == "\n"
SP == " "
BAR == "|"

\* the document alphabet: two one-token words and the line separator
DocChar == {"a", "b", NL}

DocTexts == UNION {[1..n -> DocChar] : n \in 0..MaxLen}

\* str.split(d) for a one-character separator: never empty, "" gives [""]
Split(s, d) ==
    LET at == {i \in 1..Len(s) : s[i] = d}
        n == Cardinality(at)
        \* the k-th separator, between the fences 0 and Len(s) + 1
        Pos(k) == IF k = 0 THEN 0
                  ELSE IF k = n + 1 THEN Len(s) + 1
                  ELSE CHOOSE i \in at : Cardinality({j \in at : j < i}) = k - 1
    IN [k \in 1..(n + 1) |-> SubSeq(s, Pos(k - 1) + 1, Pos(k) - 1)]

\* d.join(parts)
RECURSIVE Join(_, _)
Join(parts, d) ==
    IF parts = <<>> THEN <<>>
    ELSE IF Len(parts) = 1 THEN parts[1]
    ELSE parts[1] \o <<d>> \o Join(Tail(parts), d)

\* len(enc.encode(s)): the encoder gives one token to every word character
\* and one token to every maximal run of line separators (it never merges a
\* separator into a word, so a separator between two lines costs a token).
TokenCount(s) ==
    Cardinality({i \in 1..Len(s) : s[i] # NL})
    + Cardinality({i \in 1..Len(s) : s[i] = NL /\ (i = 1 \/ s[i - 1] # NL)})

-----------------------------------------------------------------------------
(* DocumentProcessor.split_text *)

\* line 73 with an oversized line let into the open block
MustFlushUnlessOversized(token_count, line_tokens, budget, current) ==
    token_count + line_tokens > budget /\ current # <<>> /\ line_tokens <= budget

\* line 73: the open block is closed before a line that would overflow it
MustFlush(token_count, line_tokens, budget, current) ==
    token_count + line_tokens > budget /\ current # <<>>

\* lines 79-80 with a final flush that was forgotten
FinalFlushForgotten(blks, current) == blks

\* lines 79-80: the last open block is flushed
FinalFlush(blks, current) ==
    IF current # <<>> THEN Append(blks, Join(current, NL)) ELSE blks

\* lines 64-81
split_text(txt, budget) ==
    LET lines == Split(txt, NL)
        RECURSIVE Loop(_, _, _, _)
        Loop(i, blks, current, token_count) ==
            IF i > Len(lines) THEN FinalFlush(blks, current)
            ELSE LET line == lines[i]
                     line_tokens == TokenCount(line)
                 IN IF MustFlush(token_count, line_tokens, budget, current)
                    THEN Loop(i + 1, Append(blks, Join(current, NL)),
                              <<line>>, line_tokens)
                    ELSE Loop(i + 1, blks, Append(current, line),
                              token_count + line_tokens)
    IN Loop(1, <<>>, <<>>, 0)

\* the state of process_long_document before it is called
PldIdle ==
    /\ pld_pc = "start"
    /\ chunk_results = <<>>
    /\ hallmark_order = <<>>
    /\ hallmark_scores = <<>>
    /\ hallmark_justifications = <<>>
    /\ hallmark_indicators = <<>>
    /\ final_scores = <<>>
    /\ final_justifications = <<>>
    /\ final_indicators = <<>>
    /\ sum_idx = 0
    /\ raised = <<>>
    /\ calls = <<>>
    /\ llm_tables = <<>>

\* the JSON value null / None
JNull == <<"null">>

\* the state of get_evaluation before it is called
GeIdle ==
    /\ ge_pc = "call"
    /\ ge_response = [scores |-> "absent", text |-> <<>>]
    /\ ge_result = JNull
    /\ ge_error = ""

\* the state of the Evaluate page's table parser before it runs
TableIdle ==
    /\ result_table = <<>>
    /\ data = <<>>
    /\ parse_pc = "input"
    /\ table_written = [sep |-> "none", rows |-> <<>>]

\* None
None == "None"

\* what the Manage Cases page shows before its script has run
NoView == [selected |-> None, options |-> <<>>, confirm |-> FALSE]

\* no case cached, nobody on either page
StoreIdle ==
    /\ cache_file = <<>>
    /\ clock = 0
    /\ e_pc = "idle"
    /\ e_name = None
    /\ e_scores = None
    /\ e_cache = <<>>
    /\ m_pc = "idle"
    /\ m_event = [type |-> "open"]
    /\ m_cache = <<>>
    /\ m_view = NoView
    /\ last_selected_case = None
    /\ delete_mode = <<>>
    /\ delete_success = ""
    /\ intended = <<>>

InitSplit ==
    /\ text \in DocTexts
    /\ max_tokens \in 1..MaxBudget
    /\ blocks = <<>>
    /\ split_pc = "input"
    /\ PldIdle
    /\ GeIdle
    /\ TableIdle
    /\ StoreIdle

CallSplitText ==
    /\ split_pc = "input"
    /\ blocks' = split_text(text, max_tokens)
    /\ split_pc' = "done"
    /\ UNCHANGED <<text, max_tokens, pldVars, geVars, tableVars, storeVars>>

NextSplit == CallSplitText

SpecSplit == InitSplit /\ [][NextSplit]_vars

-----------------------------------------------------------------------------
(* Claims about split_text *)

\* C1 (lossless chunking): once split_text has returned, joining the returned
\* blocks with the newline separator, in order, gives back the input text.
C1_Lossless == split_pc = "done" => Join(blocks, NL) = text

\* a text of several lines was cut into more than one block
C1_Witness ==
    /\ split_pc = "done"
    /\ Len(blocks) >= 2
    /\ Len(Split(text, NL)) > Len(blocks)

\* the lines of a block
BlockLines(b) == Split(b, NL)

\* a block holding a line that alone exceeds the budget
HasOversizedLine(b) ==
    \E i \in 1..Len(BlockLines(b)) : TokenCount(BlockLines(b)[i]) > max_tokens

\* C2 (budget respect): every returned block without an oversized line has a
\* tokenized length, as returned, of at most max_tokens.
C2_BudgetRespected ==
    split_pc = "done" =>
        \A i \in 1..Len(blocks) :
            ~HasOversizedLine(blocks[i]) => TokenCount(blocks[i]) <= max_tokens

\* the lines of the input text
TextLines == Split(text, NL)

\* the number of lines held by the first b returned blocks
RECURSIVE LinesUpTo(_)
LinesUpTo(b) ==
    IF b = 0 THEN 0 ELSE LinesUpTo(b - 1) + Len(BlockLines(blocks[b]))

\* the returned block that holds line i of the text
BlockOf(i) ==
    CHOOSE b \in 1..Len(blocks) : LinesUpTo(b - 1) < i /\ i <= LinesUpTo(b)

\* line i of the text alone exceeds the budget
Oversized(i) == TokenCount(TextLines[i]) > max_tokens

\* C13 as claimed (oversized single line): an oversized line is appended to
\* the block that is open when it is read, so the line read just before it,
\* which that open block holds, is returned in the same block.
C13_JoinsOpenBlock ==
    split_pc = "done" =>
        \A i \in 2..Len(TextLines) : Oversized(i) => BlockOf(i) = BlockOf(i - 1)

\* C13 as amended: an oversized line is never split, and it is returned as a
\* block of its own: the block open when it is read is closed before it, and
\* the line after it starts a new block.
C13_OversizedLineAlone ==
    split_pc = "done" =>
        \A i \in 1..Len(TextLines) :
            Oversized(i) =>
                /\ blocks[BlockOf(i)] = TextLines[i]
                /\ i > 1 => BlockOf(i - 1) = BlockOf(i) - 1
                /\ i < Len(TextLines) => BlockOf(i + 1) = BlockOf(i) + 1

\* an oversized line was read with lines before it and a line after it
C13_Witness ==
    /\ split_pc = "done"
    /\ \E i \in 2..(Len(TextLines) - 1) :
          /\ Oversized(i)
          /\ TokenCount(TextLines[i - 1]) > 0
          /\ TokenCount(TextLines[i - 1]) <= max_tokens

-----------------------------------------------------------------------------
(* Strings of the table parser *)

WhiteSpace == {SP, NL}

\* str.strip()
RECURSIVE LStrip(_)
LStrip(s) == IF s # <<>> /\ Head(s) \in WhiteSpace THEN LStrip(Tail(s)) ELSE s

RECURSIVE RStrip(_)
RStrip(s) ==
    IF s # <<>> /\ s[Len(s)] \in WhiteSpace
    THEN RStrip(SubSeq(s, 1, Len(s) - 1)) ELSE s

Strip(s) == LStrip(RStrip(s))

\* c in s, for a one-character c
Contains(s, c) == \E i \in 1..Len(s) : s[i] = c

\* s.startswith(prefix)
StartsWith(s, prefix) ==
    Len(s) >= Len(prefix) /\ SubSeq(s, 1, Len(prefix)) = prefix

\* parts[1:-1]
DropEnds(parts) ==
    IF Len(parts) <= 2 THEN <<>> ELSE SubSeq(parts, 2, Len(parts) - 1)

\* [c.strip() for c in row.split('|')[1:-1]]
Cells(row) ==
    LET inner == DropEnds(Split(row, BAR))
    IN [i \in 1..Len(inner) |-> Strip(inner[i])]

Digits == <<"0", "1", "2", "3", "4", "5", "6", "7", "8", "9">>

IsDigit(c) == \E d \in 1..Len(Digits) : Digits[d] = c

DigitValue(c) == (CHOOSE d \in 1..Len(Digits) : Digits[d] = c) - 1

\* float(s) succeeds: decimal numerals, digits with at most one point
IsFloat(s) ==
    /\ \A i \in 1..Len(s) : IsDigit(s[i]) \/ s[i] = "."
    /\ \E i \in 1..Len(s) : IsDigit(s[i])
    /\ Cardinality({i \in 1..Len(s) : s[i] = "."}) <= 1

\* the value of a run of digits
RECURSIVE DigitsValue(_)
DigitsValue(s) ==
    IF s = <<>> THEN 0
    ELSE 10 * DigitsValue(SubSeq(s, 1, Len(s) - 1)) + DigitValue(s[Len(s)])

\* float(s), in tenths (scores carry one decimal)
FloatTenths(s) ==
    LET parts == Split(s, ".")
        frac == IF Len(parts) > 1 /\ parts[2] # <<>>
                THEN DigitValue(parts[2][1]) ELSE 0
    IN 10 * DigitsValue(parts[1]) + frac

\* max(v) of a non-empty list
MaxOf(v) == CHOOSE m \in {v[i] : i \in 1..Len(v)} :
                \A i \in 1..Len(v) : v[i] <= m

-----------------------------------------------------------------------------
(* What the LLM returns for a chunk *)

Str(s) == [i \in 1..Len(s) |-> s[i]]

\* the table header the system prompt asks for
HeaderCells == <<<<"H">>, <<"S">>, <<"J">>, <<"I">>>>

\* "| c1 | c2 | ... |"
RECURSIVE RenderCells(_)
RenderCells(cells) ==
    IF cells = <<>> THEN <<>>
    ELSE <<SP>> \o cells[1] \o <<SP, BAR>> \o RenderCells(Tail(cells))

RenderRow(cells) == <<BAR>> \o RenderCells(cells)

Dashes == <<"-", "-", "-">>

\* the separator row under the header, written tight or with spaces
SeparatorLine(style) ==
    IF style = "tight"
    THEN <<BAR>> \o Dashes \o <<BAR>> \o Dashes \o <<BAR>> \o Dashes
         \o <<BAR>> \o Dashes \o <<BAR>>
    ELSE RenderRow(<<Dashes, Dashes, Dashes, Dashes>>)

\* the markdown text of a table: header, separator, data rows
RenderTable(t) ==
    Join(<<RenderRow(HeaderCells), SeparatorLine(t.sep)>>
         \o [i \in 1..Len(t.rows) |-> RenderRow(t.rows[i])], NL)

\* data rows the LLM may write: hallmark, score, justification, indicators
RowP4 == <<<<"P">>, <<"4">>, <<"x">>, <<"u">>>>
RowP6 == <<<<"P">>, <<"6">>, <<"y">>, <<"v">>>>
RowS8 == <<<<"S">>, <<"8">>, <<"z">>, <<>>>>
RowS5 == <<<<"S">>, <<"5">>, <<"w">>, <<"u">>>>
RowP75 == <<<<"P">>, <<"7", ".", "5">>, <<"y">>, <<"v">>>>
RowNA == <<<<"P">>, <<"N", "/", "A">>, <<"x">>, <<"u">>>>
RowShort == <<<<"S">>, <<"5">>, <<"w">>>>
RowLong == <<<<"S">>, <<"3">>, <<"w">>, <<"u">>, <<"e">>>>

\* the tables the LLM may return for one chunk
LlmTables ==
    {[sep |-> "tight", rows |-> r] :
        r \in {<<>>, <<RowP4>>, <<RowP6, RowS8>>, <<RowS5>>,
               <<RowP75, RowP4>>, <<RowNA, RowS5>>, <<RowShort>>,
               <<RowLong>>}}
    \cup {[sep |-> "spaced", rows |-> <<RowP4>>]}

-----------------------------------------------------------------------------
(* DocumentProcessor.process_long_document: parsing and aggregation *)

\* line 102: the lines of the table that hold a '|' and do not start with "|--"
TableLines(table_md) ==
    SelectSeq(Split(table_md, NL),
              LAMBDA line : Contains(line, BAR)
                            /\ ~StartsWith(Strip(line), <<BAR, "-", "-">>))

\* line 105 with the first data row lost
DataRowsOffByOne(lines) == IF Len(lines) < 2 THEN <<>> ELSE Tail(Tail(lines))

\* line 105: lines[1:]
DataRows(lines) == Tail(lines)

\* defaultdict(list)[k].append(v)
AppendTo(f, k, v) ==
    IF k \in DOMAIN f THEN [f EXCEPT ![k] = Append(@, v)] ELSE f @@ (k :> <<v>>)

\* the three defaultdicts of lines 96-98, their key order, and the exception
\* that ended the loop, if any
EmptyAcc == [order |-> <<>>, scores |-> <<>>, justs |-> <<>>, inds |-> <<>>,
             exc |-> <<>>]

\* lines 106-114: one row
AddRow(acc, row) ==
    LET cols == Cells(row)
    IN IF acc.exc # <<>> \/ Len(cols) < 4 THEN acc
       ELSE IF ~IsFloat(cols[2])
       THEN [acc EXCEPT !.exc = <<"ValueError", cols[2]>>]
       ELSE [order |-> IF cols[1] \in DOMAIN acc.scores THEN acc.order
                       ELSE Append(acc.order, cols[1]),
             scores |-> AppendTo(acc.scores, cols[1], FloatTenths(cols[2])),
             justs |-> AppendTo(acc.justs, cols[1], cols[3]),
             inds |-> AppendTo(acc.inds, cols[1], cols[4]),
             exc |-> <<>>]

RECURSIVE AddRows(_, _)
AddRows(acc, rows) ==
    IF rows = <<>> THEN acc ELSE AddRows(AddRow(acc, rows[1]), Tail(rows))

\* lines 100-114: one chunk
AddChunk(acc, chunk) ==
    IF acc.exc # <<>> THEN acc
    ELSE IF ~chunk.has_table THEN [acc EXCEPT !.exc = <<"KeyError", Str(<<>>)>>]
    ELSE LET lines == TableLines(chunk.table)
         IN IF lines = <<>> THEN acc ELSE AddRows(acc, DataRows(lines))

\* lines 99-114: every chunk, in order
RECURSIVE AddChunks(_, _)
AddChunks(acc, chunks) ==
    IF chunks = <<>> THEN acc
    ELSE AddChunks(AddChunk(acc, chunks[1]), Tail(chunks))

\* line 116 with the last score taken for the maximum
FinalScoreLast(v) == v[Len(v)]

\* line 116: max(v)
FinalScore(v) == MaxOf(v)

\* lines 117-118 with the strings joined back to front
ConcatenateReversed(strs) ==
    Join([i \in 1..Len(strs) |-> strs[Len(strs) + 1 - i]], SP)

\* lines 117-118: ' '.join(...)
Concatenate(strs) == Join(strs, SP)

-----------------------------------------------------------------------------
(* DocumentProcessor.process_long_document: the call, step by step.  The   *)
(* steps are cut at the external calls (llm_service.get_evaluation).       *)

\* most chunks of a document handed to process_long_document
MaxChunks == 3

\* line i of a document: i one-token words, so that with a budget of one
\* token every line is a block of its own and all blocks differ
DocLine(i) == [j \in 1..i |-> "a"]

\* the documents handed to process_long_document
AggDocs == {Join([i \in 1..n |-> DocLine(i)], NL) : n \in 1..MaxChunks}

\* summary['table'] of a summarization response
SummaryTable == <<"s">>

\* str(summary) of a summarization response without a 'table'
SummaryRepr == <<"{", "}">>

\* a get_evaluation call as logged: what it was for and how it ended
Call(kind, h, arg, outcome) ==
    [kind |-> kind, h |-> h, arg |-> arg, outcome |-> outcome]

InitPld ==
    /\ text \in AggDocs
    /\ max_tokens = 1
    /\ blocks = <<>>
    /\ split_pc = "input"
    /\ PldIdle
    /\ GeIdle
    /\ TableIdle
    /\ StoreIdle

\* line 85
PLD_Split ==
    /\ pld_pc = "start"
    /\ blocks' = split_text(text, max_tokens)
    /\ split_pc' = "done"
    /\ pld_pc' = "eval"
    /\ UNCHANGED <<text, max_tokens, chunk_results, hallmark_order,
                   hallmark_scores, hallmark_justifications,
                   hallmark_indicators, final_scores, final_justifications,
                   final_indicators, sum_idx, raised, calls, llm_tables,
                   geVars, tableVars, storeVars>>

\* line 87 with the blocks taken from the last one backwards
NextBlockBackwards(blks, done) == blks[Len(blks) - Len(done)]

\* line 87: for i, block in enumerate(blocks), the block of the next pass
NextBlock(blks, done) == blks[Len(done) + 1]

\* lines 87-93: one pass of the loop; the call returns a result with a
\* table, a result without one, or raises
PLD_EvaluateChunk ==
    /\ pld_pc = "eval"
    /\ Len(chunk_results) < Len(blocks)
    /\ LET block == NextBlock(blocks, chunk_results)
       IN \/ \E t \in LlmTables :
                /\ chunk_results' = Append(chunk_results,
                        [has_table |-> TRUE, table |-> RenderTable(t)])
                /\ llm_tables' = Append(llm_tables, t)
                /\ calls' = Append(calls, Call("evaluate", <<>>, block, "table"))
                /\ UNCHANGED <<pld_pc, raised>>
          \/ /\ chunk_results' = Append(chunk_results,
                        [has_table |-> FALSE, table |-> <<>>])
             /\ llm_tables' = Append(llm_tables, [sep |-> "none", rows |-> <<>>])
             /\ calls' = Append(calls, Call("evaluate", <<>>, block, "notable"))
             /\ UNCHANGED <<pld_pc, raised>>
          \/ /\ calls' = Append(calls, Call("evaluate", <<>>, block, "raise"))
             /\ pld_pc' = "raised"
             /\ raised' = <<"Exception", "evaluate">>
             /\ UNCHANGED <<chunk_results, llm_tables>>
    /\ UNCHANGED <<splitVars, hallmark_order, hallmark_scores,
                   hallmark_justifications, hallmark_indicators, final_scores,
                   final_justifications, final_indicators, sum_idx,
                   geVars, tableVars, storeVars>>

\* lines 95-118: parse every chunk's table, then the maximum score and the
\* concatenated texts of every hallmark
PLD_Aggregate ==
    /\ pld_pc = "eval"
    /\ Len(chunk_results) = Len(blocks)
    /\ LET acc == AddChunks(EmptyAcc, chunk_results)
       IN IF acc.exc # <<>>
          THEN /\ pld_pc' = "raised"
               /\ raised' = acc.exc
               /\ UNCHANGED <<hallmark_order, hallmark_scores,
                              hallmark_justifications, hallmark_indicators,
                              final_scores, final_justifications,
                              final_indicators, sum_idx>>
          ELSE /\ hallmark_order' = acc.order
               /\ hallmark_scores' = acc.scores
               /\ hallmark_justifications' = acc.justs
               /\ hallmark_indicators' = acc.inds
               /\ final_scores' =
                    [h \in DOMAIN acc.scores |-> FinalScore(acc.scores[h])]
               /\ final_justifications' =
                    [h \in DOMAIN acc.justs |-> Concatenate(acc.justs[h])]
               /\ final_indicators' =
                    [h \in DOMAIN acc.inds |-> Concatenate(acc.inds[h])]
               /\ sum_idx' = 1
               /\ pld_pc' = IF acc.order = <<>> THEN "returned" ELSE "sumJ"
               /\ UNCHANGED raised
    /\ UNCHANGED <<splitVars, chunk_results, calls, llm_tables, geVars, tableVars,
                   storeVars>>

\* lines 120-126: one pass of the justification loop
PLD_SummarizeJustification ==
    /\ pld_pc = "sumJ"
    /\ LET h == hallmark_order[sum_idx]
           last == sum_idx = Len(hallmark_order)
           arg == final_justifications[h]
       IN \/ /\ calls' = Append(calls, Call("justification", h, arg, "table"))
             /\ final_justifications' =
                    [final_justifications EXCEPT ![h] = SummaryTable]
             /\ sum_idx' = IF last THEN 1 ELSE sum_idx + 1
             /\ pld_pc' = IF last THEN "sumI" ELSE "sumJ"
             /\ UNCHANGED raised
          \/ /\ calls' = Append(calls, Call("justification", h, arg, "notable"))
             /\ final_justifications' =
                    [final_justifications EXCEPT ![h] = SummaryRepr]
             /\ sum_idx' = IF last THEN 1 ELSE sum_idx + 1
             /\ pld_pc' = IF last THEN "sumI" ELSE "sumJ"
             /\ UNCHANGED raised
          \/ /\ calls' = Append(calls, Call("justification", h, arg, "raise"))
             /\ pld_pc' = "raised"
             /\ raised' = <<"Exception", "justification">>
             /\ UNCHANGED <<final_justifications, sum_idx>>
    /\ UNCHANGED <<splitVars, chunk_results, hallmark_order, hallmark_scores,
                   hallmark_justifications, hallmark_indicators, final_scores,
                   final_indicators, llm_tables, geVars, tableVars, storeVars>>

\* lines 127-134: one pass of the indicators loop; the last pass returns
PLD_SummarizeIndicators ==
    /\ pld_pc = "sumI"
    /\ LET h == hallmark_order[sum_idx]
           last == sum_idx = Len(hallmark_order)
           arg == final_indicators[h]
       IN \/ /\ calls' = Append(calls, Call("indicators", h, arg, "table"))
             /\ final_indicators' =
                    [final_indicators EXCEPT ![h] = SummaryTable]
             /\ sum_idx' = IF last THEN 1 ELSE sum_idx + 1
             /\ pld_pc' = IF last THEN "returned" ELSE "sumI"
             /\ UNCHANGED raised
          \/ /\ calls' = Append(calls, Call("indicators", h, arg, "notable"))
             /\ final_indicators' =
                    [final_indicators EXCEPT ![h] = SummaryRepr]
             /\ sum_idx' = IF last THEN 1 ELSE sum_idx + 1
             /\ pld_pc' = IF last THEN "returned" ELSE "sumI"
             /\ UNCHANGED raised
          \/ /\ calls' = Append(calls, Call("indicators", h, arg, "raise"))
             /\ pld_pc' = "raised"
             /\ raised' = <<"Exception", "indicators">>
             /\ UNCHANGED <<final_indicators, sum_idx>>
    /\ UNCHANGED <<splitVars, chunk_results, hallmark_order, hallmark_scores,
                   hallmark_justifications, hallmark_indicators, final_scores,
                   final_justifications, llm_tables, geVars, tableVars, storeVars>>

NextPld ==
    \/ PLD_Split
    \/ PLD_EvaluateChunk
    \/ PLD_Aggregate
    \/ PLD_SummarizeJustification
    \/ PLD_SummarizeIndicators

SpecPld == InitPld /\ [][NextPld]_vars

-----------------------------------------------------------------------------
(* Claims about process_long_document *)

\* the rows the LLM wrote that process_long_document reads as data rows:
\* those with at least the four columns, chunk by chunk, top to bottom
RECURSIVE WrittenRows(_)
WrittenRows(tables) ==
    IF tables = <<>> THEN <<>>
    ELSE SelectSeq(tables[1].rows, LAMBDA r : Len(r) >= 4)
         \o WrittenRows(Tail(tables))

\* the rows written for hallmark h
RowsOf(h) == SelectSeq(WrittenRows(llm_tables), LAMBDA r : r[1] = h)

WrittenHallmarks ==
    {WrittenRows(llm_tables)[i][1] : i \in 1..Len(WrittenRows(llm_tables))}

\* the number each score cell of the rows above stands for, in tenths
ScoreMeant ==
    (<<"4">> :> 40) @@ (<<"6">> :> 60) @@ (<<"8">> :> 80) @@ (<<"5">> :> 50)
    @@ (<<"3">> :> 30) @@ (<<"7", ".", "5">> :> 75)

ScoresMeant(h) == {ScoreMeant[RowsOf(h)[i][2]] : i \in 1..Len(RowsOf(h))}

\* C3 (max-score aggregation): when process_long_document returns, the final
\* score of every hallmark that was read from some row is the largest of the
\* scores written for it in the chunks where it appears.
C3_MaxScore ==
    pld_pc = "returned" =>
        \A h \in WrittenHallmarks :
            /\ h \in DOMAIN final_scores
            /\ final_scores[h] \in ScoresMeant(h)
            /\ \A v \in ScoresMeant(h) : v <= final_scores[h]

\* the spec's scenario: {P: 4.0}, {P: 6.0, S: 8.0}, {S: 5.0} gives
\* {P: 6.0, S: 8.0}
C3_Witness ==
    /\ pld_pc = "returned"
    /\ Len(llm_tables) = 3
    /\ llm_tables[1].rows = <<RowP4>>
    /\ llm_tables[2].rows = <<RowP6, RowS8>>
    /\ llm_tables[3].rows = <<RowS5>>
    /\ final_scores = (<<"P">> :> 60) @@ (<<"S">> :> 80)

\* C4 (omission invariant): when process_long_document returns, the keys of
\* the final score mapping are exactly the hallmarks read from some row; a
\* hallmark read from no row is not a key.
C4_KeysAreParsedHallmarks ==
    pld_pc = "returned" => DOMAIN final_scores = WrittenHallmarks

\* two chunks were evaluated, P was scored and S was scored nowhere
C4_Witness ==
    /\ pld_pc = "returned"
    /\ Len(llm_tables) >= 2
    /\ <<"P">> \in DOMAIN final_scores
    /\ <<"S">> \notin DOMAIN final_scores

\* the cells of column c written for hallmark h, in chunk order
CellsMeant(h, c) == [i \in 1..Len(RowsOf(h)) |-> RowsOf(h)[i][c]]

\* C5 (concatenation order): the text handed to a summarization call for a
\* hallmark is the hallmark's justification (or indicators) cells joined with
\* one space each, in chunk-processing order.
C5_ConcatenationOrder ==
    \A i \in 1..Len(calls) :
        /\ calls[i].kind = "justification" =>
               calls[i].arg = Join(CellsMeant(calls[i].h, 3), SP)
        /\ calls[i].kind = "indicators" =>
               calls[i].arg = Join(CellsMeant(calls[i].h, 4), SP)

\* a summarization call was handed "x y": chunk 1's text, then chunk 2's
C5_Witness ==
    \E i \in 1..Len(calls) :
        /\ calls[i].kind = "justification"
        /\ calls[i].arg = <<"x", SP, "y">>
        /\ Len(llm_tables) >= 2
        /\ llm_tables[1].rows = <<RowP4>>

\* C6 (parser rejection): a row whose score cell is "N/A" is skipped and
\* never ends process_long_document with an exception.
C6_BadRowSkipped ==
    ~(pld_pc = "raised" /\ raised = <<"ValueError", <<"N", "/", "A">>>>)

\* C7 (parser tolerance): once the tables are parsed, every row written with
\* fewer cells than the header has been read with its missing cells empty,
\* so its hallmark has an entry whose indicators cell is the empty string.
C7_ShortRowPadded ==
    pld_pc \in {"sumJ", "sumI", "returned"} =>
        \A c \in 1..Len(llm_tables) :
            \A r \in 1..Len(llm_tables[c].rows) :
                LET row == llm_tables[c].rows[r]
                IN Len(row) < Len(HeaderCells) =>
                       /\ row[1] \in DOMAIN hallmark_indicators
                       /\ \E k \in 1..Len(hallmark_indicators[row[1]]) :
                              hallmark_indicators[row[1]][k] = <<>>

\* C8 (summarization failure isolation): a summarization call that fails
\* does not end process_long_document with an exception.
C8_SummaryFailureIsolated ==
    (\E i \in 1..Len(calls) :
        /\ calls[i].kind \in {"justification", "indicators"}
        /\ calls[i].outcome = "raise")
    => pld_pc # "raised"

\* the evaluation calls of the log, in the order they were issued
EvaluateCalls == SelectSeq(calls, LAMBDA c : c.kind = "evaluate")

\* C12 (sequential document-order evaluation): the k-th evaluation call is
\* for the k-th block of the chunker, so there is at most one per block and
\* they run through the document in order; a call that failed is the last
\* call (nothing is retried or issued after it); no evaluation call comes
\* after a summarization call; and once the chunk loop is over there is
\* exactly one evaluation call per block, their texts making up the document.
C12_SequentialEvaluation ==
    /\ Len(EvaluateCalls) <= Len(blocks)
    /\ \A k \in 1..Len(EvaluateCalls) : EvaluateCalls[k].arg = blocks[k]
    /\ \A i \in 1..Len(calls) : calls[i].outcome = "raise" => i = Len(calls)
    /\ \A i \in 1..Len(calls) : \A j \in 1..Len(calls) :
          (i < j /\ calls[j].kind = "evaluate") => calls[i].kind = "evaluate"
    /\ pld_pc \in {"sumJ", "sumI", "returned"} =>
          /\ Len(EvaluateCalls) = Len(blocks)
          /\ Join([k \in 1..Len(EvaluateCalls) |-> EvaluateCalls[k].arg], NL)
             = text

\* a document of three blocks was evaluated and summarized
C12_Witness ==
    /\ pld_pc = "returned"
    /\ Len(blocks) = 3
    /\ Len(calls) > Len(blocks)
    /\ calls[3].kind = "evaluate"
    /\ calls[4].kind = "justification"

\* the number of summarization calls of a kind logged for hallmark h
SummaryCalls(kind, h) ==
    Len(SelectSeq(calls, LAMBDA c : c.kind = kind /\ c.h = h))

\* the number of requests a concatenated text is due: none when it is empty
RequestsDue(txt) == IF txt = <<>> THEN 0 ELSE 1

\* C14 (summarization requests only for non-empty text): when
\* process_long_document returns, exactly one justification-summarization
\* request was issued for every hallmark whose concatenated justification is
\* non-empty and none for a hallmark whose concatenated justification is the
\* empty string; the same for the indicators.
C14_OnlyNonEmptySummarized ==
    pld_pc = "returned" =>
        \A i \in 1..Len(hallmark_order) :
            LET h == hallmark_order[i]
            IN /\ SummaryCalls("justification", h)
                  = RequestsDue(Concatenate(hallmark_justifications[h]))
               /\ SummaryCalls("indicators", h)
                  = RequestsDue(Concatenate(hallmark_indicators[h]))

\* C16 (separator row always skipped): in process_long_document the
\* separator row under the header, written tight or with spaces, is never
\* read as a data row: its dashes are no hallmark, and they never fail the
\* conversion of a score.
C16_SeparatorSkipped ==
    /\ \A i \in 1..Len(hallmark_order) : hallmark_order[i] # Dashes
    /\ ~(pld_pc = "raised" /\ raised = <<"ValueError", Dashes>>)

-----------------------------------------------------------------------------
(* JSON values and json.loads *)

JNumber(n) == <<"number", n>>
JString(s) == <<"str", s>>
JList(items) == <<"list", items>>
\* a dict: its keys in order and the value of each
JDict(keys, values) == <<"dict", keys, values>>

\* type(v)
Kind(v) == v[1]

QUOTE == "\""

ParseFailed == [ok |-> FALSE, val |-> JNull, rest |-> <<>>]
Parsed(v, rest) == [ok |-> TRUE, val |-> v, rest |-> rest]

\* the characters of a string literal up to its closing quote
RECURSIVE ParseStringBody(_, _)
ParseStringBody(s, acc) ==
    IF s = <<>> THEN ParseFailed
    ELSE IF s[1] = QUOTE THEN Parsed(JString(acc), Tail(s))
    ELSE IF s[1] = NL THEN ParseFailed
    ELSE IF s[1] = "\\" THEN
         IF Len(s) < 2 THEN ParseFailed
         ELSE IF s[2] \in {QUOTE, "\\", "/"}
         THEN ParseStringBody(SubSeq(s, 3, Len(s)), Append(acc, s[2]))
         ELSE IF s[2] = "n"
         THEN ParseStringBody(SubSeq(s, 3, Len(s)), Append(acc, NL))
         ELSE ParseFailed
    ELSE ParseStringBody(Tail(s), Append(acc, s[1]))

\* a run of digits
RECURSIVE ParseDigits(_, _)
ParseDigits(s, n) ==
    IF s # <<>> /\ IsDigit(s[1])
    THEN ParseDigits(Tail(s), 10 * n + DigitValue(s[1]))
    ELSE Parsed(JNumber(n), s)

RECURSIVE ParseValue(_)
RECURSIVE ParseMembers(_, _, _, _)
RECURSIVE ParseItems(_, _, _)

\* the members of an object after '{' (or after a comma when ~first)
ParseMembers(s0, keys, values, first) ==
    LET s == LStrip(s0)
    IN IF s = <<>> THEN ParseFailed
       ELSE IF s[1] = "}" THEN
            IF first THEN Parsed(JDict(keys, values), Tail(s)) ELSE ParseFailed
       ELSE IF s[1] # QUOTE THEN ParseFailed
       ELSE LET k == ParseStringBody(Tail(s), <<>>)
                afterKey == LStrip(k.rest)
            IN IF ~k.ok \/ afterKey = <<>> \/ afterKey[1] # ":" THEN ParseFailed
               ELSE LET v == ParseValue(Tail(afterKey))
                        afterValue == LStrip(v.rest)
                        keys2 == IF \E i \in 1..Len(keys) : keys[i] = k.val[2]
                                 THEN keys ELSE Append(keys, k.val[2])
                        values2 == [x \in (DOMAIN values) \cup {k.val[2]} |->
                                      IF x = k.val[2] THEN v.val ELSE values[x]]
                    IN IF ~v.ok \/ afterValue = <<>> THEN ParseFailed
                       ELSE IF afterValue[1] = "}"
                       THEN Parsed(JDict(keys2, values2), Tail(afterValue))
                       ELSE IF afterValue[1] = ","
                       THEN ParseMembers(Tail(afterValue), keys2, values2, FALSE)
                       ELSE ParseFailed

\* the items of an array after '[' (or after a comma when ~first)
ParseItems(s0, items, first) ==
    LET s == LStrip(s0)
    IN IF s = <<>> THEN ParseFailed
       ELSE IF s[1] = "]" THEN
            IF first THEN Parsed(JList(items), Tail(s)) ELSE ParseFailed
       ELSE LET v == ParseValue(s)
                afterValue == LStrip(v.rest)
            IN IF ~v.ok \/ afterValue = <<>> THEN ParseFailed
               ELSE IF afterValue[1] = "]"
               THEN Parsed(JList(Append(items, v.val)), Tail(afterValue))
               ELSE IF afterValue[1] = ","
               THEN ParseItems(Tail(afterValue), Append(items, v.val), FALSE)
               ELSE ParseFailed

\* one JSON value at the head of s
ParseValue(s0) ==
    LET s == LStrip(s0)
    IN IF s = <<>> THEN ParseFailed
       ELSE IF s[1] = "{" THEN ParseMembers(Tail(s), <<>>, <<>>, TRUE)
       ELSE IF s[1] = "[" THEN ParseItems(Tail(s), <<>>, TRUE)
       ELSE IF s[1] = QUOTE THEN ParseStringBody(Tail(s), <<>>)
       ELSE IF IsDigit(s[1]) THEN ParseDigits(s, 0)
       ELSE IF StartsWith(s, <<"n", "u", "l", "l">>)
       THEN Parsed(JNull, SubSeq(s, 5, Len(s)))
       ELSE ParseFailed

\* json.loads(s) does not raise
LoadsOk(s) == ParseValue(s).ok /\ LStrip(ParseValue(s).rest) = <<>>

\* json.loads(s)
Loads(s) == ParseValue(s).val

-----------------------------------------------------------------------------
(* What the LLM sends to get_evaluation *)

\* the value of the "scores" field as the LLM may write it, and what it is:
\* a mapping, a string holding a mapping, a string holding something else,
\* or another JSON value
ScoresFields ==
    {[is |-> "mapping",
      json |-> <<"{", QUOTE, "P", QUOTE, ":", "4", "}">>],
     [is |-> "mapping_text",
      json |-> <<QUOTE, "{", "\\", QUOTE, "P", "\\", QUOTE, ":", "4", "}",
                 QUOTE>>],
     [is |-> "mapping_text",
      json |-> <<QUOTE, "{", "}", QUOTE>>],
     [is |-> "other_text",
      json |-> <<QUOTE, "[", "4", "]", QUOTE>>],
     [is |-> "other_text",
      json |-> <<QUOTE, "4", QUOTE>>],
     [is |-> "other_text",
      json |-> <<QUOTE, "N", "/", "A", QUOTE>>],
     [is |-> "other_text",
      json |-> <<QUOTE, "{", "'", "P", "'", ":", "4", "}", QUOTE>>],
     [is |-> "other_text",
      json |-> <<QUOTE, QUOTE>>],
     [is |-> "other_text",
      json |-> <<QUOTE, "{", "\\", QUOTE, "P", "\\", QUOTE, ":", "4", QUOTE>>],
     [is |-> "other_text",
      json |-> <<QUOTE, "n", "u", "l", "l", QUOTE>>],
     [is |-> "other",
      json |-> <<"[", "4", "]">>],
     [is |-> "other",
      json |-> <<"4">>],
     [is |-> "other",
      json |-> <<"n", "u", "l", "l">>]}

\* what surrounds the field: a bare JSON object, an object inside prose, an
\* object with a raw line break inside a string
Wrappers ==
    {[before |-> <<"{", QUOTE, "t", "a", "b", "l", "e", QUOTE, ":", QUOTE,
                   "t", QUOTE, ",", QUOTE, "s", "c", "o", "r", "e", "s",
                   QUOTE, ":">>,
      after |-> <<"}">>],
     [before |-> <<"o", "k", " ", "{", QUOTE, "s", "c", "o", "r", "e", "s",
                   QUOTE, ":">>,
      after |-> <<"}", ".">>],
     [before |-> <<"{", QUOTE, "t", "a", "b", "l", "e", QUOTE, ":", QUOTE,
                   "a", NL, "b", QUOTE, ",", QUOTE, "s", "c", "o", "r",
                   "e", "s", QUOTE, ":">>,
      after |-> <<"}">>]}

\* responses without a "scores" field: objects, other JSON values, no JSON
OtherResponses ==
    {<<"{", QUOTE, "t", "a", "b", "l", "e", QUOTE, ":", QUOTE, "t", QUOTE,
       "}">>,
     <<"o", "k", " ", "{", QUOTE, "t", "a", "b", "l", "e", QUOTE, ":",
       QUOTE, "t", QUOTE, "}", ".">>,
     <<"[", QUOTE, "s", "c", "o", "r", "e", "s", QUOTE, "]">>,
     <<"[", "4", "]">>,
     <<QUOTE, "s", "c", "o", "r", "e", "s", QUOTE>>,
     <<QUOTE, "x", QUOTE>>,
     <<"4">>,
     <<"n", "u", "l", "l">>,
     <<"o", "k", " ", "{", QUOTE, "s", "c", "o", "r", "e", "s", QUOTE, ":">>,
     <<"s", "o", "r", "r", "y">>,
     <<>>}

\* the response texts the LLM may send, each with what its "scores" field is
Responses ==
    {[scores |-> f.is, text |-> w.before \o f.json \o w.after] :
        f \in ScoresFields, w \in Wrappers}
    \cup {[scores |-> "absent", text |-> t] : t \in OtherResponses}

-----------------------------------------------------------------------------
(* LLMService.get_evaluation *)

SCORES == <<"s", "c", "o", "r", "e", "s">>

\* str.find(c) + 1: the first position of c in s, 0 if there is none
FindFirst(s, c) ==
    IF Contains(s, c)
    THEN CHOOSE i \in 1..Len(s) : s[i] = c /\ \A j \in 1..(i - 1) : s[j] # c
    ELSE 0

\* str.rfind(c) + 1: the last position of c in s, 0 if there is none
FindLast(s, c) ==
    IF Contains(s, c)
    THEN CHOOSE i \in 1..Len(s) : s[i] = c /\ \A j \in (i + 1)..Len(s) : s[j] # c
    ELSE 0

\* sub in s
IsSubstring(sub, s) ==
    \E i \in 0..(Len(s) - Len(sub)) : SubSeq(s, i + 1, i + Len(sub)) = sub

\* lines 139-145: control characters are removed (line breaks among them),
\* then the line breaks that are left are escaped
clean_json_string(json_str) ==
    LET removed == SelectSeq(json_str, LAMBDA c : c # NL)
        RECURSIVE Escape(_)
        Escape(s) == IF s = <<>> THEN <<>>
                     ELSE (IF s[1] = NL THEN <<"\\", "n">> ELSE <<s[1]>>)
                          \o Escape(Tail(s))
    IN Escape(removed)

\* lines 108-125: the response text is parsed as it is or, failing that, from
\* its first '{' to its last '}' after cleaning
ParseResponse(response_text) ==
    IF LoadsOk(response_text) THEN [ok |-> TRUE, val |-> Loads(response_text)]
    ELSE LET first == FindFirst(response_text, "{")
             last == FindLast(response_text, "}")
             cleaned == clean_json_string(SubSeq(response_text, first, last))
         IN IF first # 0 /\ LoadsOk(cleaned)
            THEN [ok |-> TRUE, val |-> Loads(cleaned)]
            ELSE [ok |-> FALSE, val |-> JNull]

\* 'scores' in result raises TypeError
InRaises(result) == Kind(result) \in {"number", "null"}

\* 'scores' in result
HasScores(result) ==
    CASE Kind(result) = "dict" -> SCORES \in DOMAIN result[3]
      [] Kind(result) = "list" ->
            \E i \in 1..Len(result[2]) : result[2][i] = JString(SCORES)
      [] Kind(result) = "str" -> IsSubstring(SCORES, result[2])
      [] OTHER -> FALSE

\* result['scores'] raises TypeError
SubscriptRaises(result) == Kind(result) # "dict"

\* result['scores']
ScoresOf(result) == result[3][SCORES]

\* result['scores'] = v
SetScores(result, v) ==
    JDict(result[2], [result[3] EXCEPT ![SCORES] = v])

\* line 132 with a check that lets every type through
ScoresNotDictUnchecked(result) == FALSE

\* line 132: 'scores' in result and not isinstance(result['scores'], dict)
ScoresNotDict(result) ==
    HasScores(result) /\ Kind(ScoresOf(result)) # "dict"

Raise(why) == [raised |-> TRUE, error |-> why, result |-> JNull]
Return(result) == [raised |-> FALSE, error |-> "", result |-> result]

\* lines 106-137, after the completion has arrived
get_evaluation(response_text) ==
    LET p == ParseResponse(response_text)
        result == p.val
    IN IF ~p.ok THEN Raise("Failed to parse the response as JSON")
       ELSE IF InRaises(result) THEN Raise("TypeError")
       ELSE IF HasScores(result) /\ SubscriptRaises(result)
       THEN Raise("TypeError")
       ELSE IF HasScores(result) /\ Kind(ScoresOf(result)) = "str"
       THEN IF ~LoadsOk(ScoresOf(result)[2])
            THEN Raise("scores is a string and cannot be parsed")
            ELSE LET loaded == SetScores(result, Loads(ScoresOf(result)[2]))
                 IN IF ScoresNotDict(loaded)
                    THEN Raise("scores is not a dictionary")
                    ELSE Return(loaded)
       ELSE IF ScoresNotDict(result) THEN Raise("scores is not a dictionary")
       ELSE Return(result)

InitGe ==
    /\ ge_pc = "call"
    /\ ge_response \in Responses
    /\ ge_result = JNull
    /\ ge_error = ""
    /\ text = <<>>
    /\ max_tokens = 1
    /\ blocks = <<>>
    /\ split_pc = "input"
    /\ PldIdle
    /\ TableIdle
    /\ StoreIdle

\* lines 50-137: the completion call fails, or its text is parsed and checked
GE_Call ==
    /\ ge_pc = "call"
    /\ \/ /\ ge_pc' = "raised"
          /\ ge_error' = "API call failed"
          /\ UNCHANGED ge_result
       \/ LET out == get_evaluation(ge_response.text)
          IN /\ ge_pc' = IF out.raised THEN "raised" ELSE "returned"
             /\ ge_error' = out.error
             /\ ge_result' = out.result
    /\ UNCHANGED <<ge_response, splitVars, pldVars, tableVars, storeVars>>

NextGe == GE_Call

SpecGe == InitGe /\ [][NextGe]_vars

-----------------------------------------------------------------------------
(* Claims about get_evaluation *)

\* C9 (scores contract): get_evaluation raises whenever the response's scores
\* field is neither a mapping nor a string that parses into a mapping, and a
\* result it returns has no scores field or one that is a mapping.
C9_ScoresContract ==
    /\ (ge_pc # "call" /\ ge_response.scores \in {"other", "other_text"})
           => ge_pc = "raised"
    /\ (ge_pc = "returned" /\ Kind(ge_result) = "dict"
            /\ SCORES \in DOMAIN ge_result[3])
           => Kind(ge_result[3][SCORES]) = "dict"

\* a response whose scores field was a string holding a mapping was returned
\* with the mapping in its place
C9_Witness ==
    /\ ge_pc = "returned"
    /\ ge_response.scores = "mapping_text"
    /\ Kind(ge_result) = "dict"
    /\ ge_result[3][SCORES] = JDict(<<<<"P">>>>, (<<"P">> :> JNumber(4)))

-----------------------------------------------------------------------------
(* The Evaluate page's table parser (Evaluate lines 95-129)                *)

\* most data rows of a table handed to the Evaluate page's parser
MaxRows == 2

\* line.rstrip()
EvalRStrip(line) == RStrip(line)

\* line 97: the lines of the table that are not blank, trailing space removed
EvalLines(md) ==
    LET kept == SelectSeq(Split(md, NL), LAMBDA line : Strip(line) # <<>>)
    IN [i \in 1..Len(kept) |-> EvalRStrip(kept[i])]

\* line 102: lines[2:]
DataLines(lines) ==
    IF Len(lines) <= 2 THEN <<>> ELSE SubSeq(lines, 3, Len(lines))

\* line 106 with any line that holds the delimiter taken for a new row
StartsRowAnywhere(line) == Contains(line, BAR)

\* line 106: line.startswith('|')
StartsRow(line) == StartsWith(line, <<BAR>>)

\* lines 110, 122: c.replace('\n', '; ')
RECURSIVE ReplaceBreaks(_)
ReplaceBreaks(c) ==
    IF c = <<>> THEN <<>>
    ELSE (IF Head(c) = NL THEN <<";", SP>> ELSE <<Head(c)>>)
         \o ReplaceBreaks(Tail(c))

\* lines 111-114, 123-126: pad with '' or cut to the header's length
Reconcile(cols, n) ==
    [i \in 1..n |-> IF i <= Len(cols) THEN cols[i] ELSE <<>>]

\* lines 108-114, 120-126: the cells of the row held by the buffer
BufferRow(buffer, n) ==
    LET cols == Cells(Join(buffer, NL))
    IN Reconcile([i \in 1..Len(cols) |-> ReplaceBreaks(cols[i])], n)

\* lines 115-116, 127-128: any(c for c in cols)
AnyCell(cols) == \E i \in 1..Len(cols) : cols[i] # <<>>

\* lines 107-117, 119-128: the buffer's row is added unless all its cells
\* are empty
Flush(rows, buffer, n) ==
    IF buffer # <<>> /\ AnyCell(BufferRow(buffer, n))
    THEN Append(rows, BufferRow(buffer, n)) ELSE rows

\* lines 99-128: the list data of a table with at least one line
ParseTable(md) ==
    LET lines == EvalLines(md)
        n == Len(Cells(lines[1]))
        data_lines == DataLines(lines)
        RECURSIVE Loop(_, _, _)
        Loop(i, rows, buffer) ==
            IF i > Len(data_lines) THEN Flush(rows, buffer, n)
            ELSE IF StartsRow(data_lines[i])
            THEN Loop(i + 1, Flush(rows, buffer, n), <<data_lines[i]>>)
            ELSE Loop(i + 1, rows, Append(buffer, data_lines[i]))
    IN Loop(1, <<>>, <<>>)

\* data rows the LLM may write, with line breaks inside cells
RowBreak == <<<<"P">>, <<"4">>, <<"x", NL, "y">>, <<"u">>>>
RowBreaks == <<<<"S">>, <<"5">>, <<"w", NL, "x">>, <<"u", NL, "v">>>>
RowBreakAtEnd == <<<<"P">>, <<"6">>, <<"y", NL>>, <<"v">>>>
RowEmpty == <<<<>>, <<>>, <<>>, <<>>>>

EvalRows == {RowP4, RowBreak, RowBreaks, RowBreakAtEnd, RowEmpty, RowShort,
             RowLong}

\* the tables the LLM may return to the Evaluate page, and no table text
EvalTables ==
    {[sep |-> sep, rows |-> rows] :
        sep \in {"tight", "spaced"},
        rows \in UNION {[1..k -> EvalRows] : k \in 0..MaxRows}}
    \cup {[sep |-> "none", rows |-> <<>>]}

\* result['table'] of a table written
EvalTableText(t) == IF t.sep = "none" THEN <<>> ELSE RenderTable(t)

InitTable ==
    /\ table_written \in EvalTables
    /\ result_table = EvalTableText(table_written)
    /\ data = <<>>
    /\ parse_pc = "input"
    /\ text = <<>>
    /\ max_tokens = 1
    /\ blocks = <<>>
    /\ split_pc = "input"
    /\ PldIdle
    /\ GeIdle
    /\ StoreIdle

\* Evaluate lines 95-129: the table is parsed; lines[0] of a text without a
\* line raises IndexError, caught at line 153
EvalParse ==
    /\ parse_pc = "input"
    /\ IF EvalLines(result_table) = <<>>
       THEN /\ parse_pc' = "raised"
            /\ UNCHANGED data
       ELSE /\ parse_pc' = "parsed"
            /\ data' = ParseTable(result_table)
    /\ UNCHANGED <<result_table, table_written, splitVars, pldVars, geVars,
                   storeVars>>

NextTable == EvalParse

SpecTable == InitTable /\ [][NextTable]_vars

-----------------------------------------------------------------------------
(* Claims about the Evaluate page's table parser *)

\* parts joined with "; "
RECURSIVE JoinBreaks(_)
JoinBreaks(parts) ==
    IF Len(parts) = 1 THEN parts[1]
    ELSE parts[1] \o <<";", SP>> \o JoinBreaks(Tail(parts))

\* a cell as written, read: trimmed, its line breaks turned into "; "
CellRead(c) == JoinBreaks(Split(Strip(c), NL))

\* a row as written, read against the four header columns
RowRead(row) ==
    [i \in 1..Len(HeaderCells) |->
        IF i <= Len(row) THEN CellRead(row[i]) ELSE <<>>]

\* the rows written whose cells, as read, are not all empty
RowsRead(rows) ==
    LET read == [i \in 1..Len(rows) |-> RowRead(rows[i])]
    IN SelectSeq(read, LAMBDA r : \E i \in 1..Len(r) : r[i] # <<>>)

\* C15 (multi-line rows): the lines of a written row that follow its
\* pipe-starting line are read into the same row, a row ending only at the
\* next pipe-starting line or at the end of the input; every line break
\* inside a cell is read as "; "; so the parsed rows are the written rows
\* whose cells are not all empty, one for each, in order.
C15_MultiLineRows ==
    parse_pc = "parsed" =>
        /\ Len(data) = Len(RowsRead(table_written.rows))
        /\ data = RowsRead(table_written.rows)

\* a row written over three lines was read as one row, before a row with
\* empty cells only that was dropped
C15_Witness ==
    /\ parse_pc = "parsed"
    /\ table_written.rows = <<RowBreaks, RowEmpty>>
    /\ data = <<<<<<"S">>, <<"5">>, <<"w", ";", SP, "x">>,
                  <<"u", ";", SP, "v">>>>>>

-----------------------------------------------------------------------------
(* The case store: cache/case_cache.pkl, a pickled dict from case name to  *)
(* record.  A dict is a sequence of entries in insertion order.  Each page *)
(* script runs in its session's own thread; reading the file and writing   *)
(* it are the steps at which the two sessions interleave.                  *)

\* most evaluations saved
MaxEvals == 2

\* the case names typed into the two pages
CaseNames == {"A", "B", "C"}

\* result['scores'] of an evaluation
ScoreValues == {"s1"}

Entry(n, rec) == [name |-> n, rec |-> rec]

\* list(cache.keys())
Keys(c) == [i \in 1..Len(c) |-> c[i].name]

\* n in cache
HasKey(c, n) == \E i \in 1..Len(c) : c[i].name = n

\* cache[n]
Get(c, n) == c[CHOOSE i \in 1..Len(c) : c[i].name = n].rec

\* cache[n] = rec: in place for a key already there, else at the end
SetItem(c, n, rec) ==
    IF HasKey(c, n)
    THEN [i \in 1..Len(c) |-> IF c[i].name = n THEN Entry(n, rec) ELSE c[i]]
    ELSE Append(c, Entry(n, rec))

\* the dict after cache.pop(n)
Pop(c, n) == SelectSeq(c, LAMBDA e : e.name # n)

\* the name check left out
NameTakenUnchecked(c, n) == FALSE

\* Evaluate line 63, Manage Cases line 54: the name is already a key
NameTaken(c, n) == HasKey(c, n)

\* line 57 with the old key left in place
RenamedKeepsOld(c, old, new) == SetItem(c, new, Get(c, old))

\* Manage Cases line 57: cache[new_name] = cache.pop(selected_case)
Renamed(c, old, new) == SetItem(Pop(c, old), new, Get(c, old))

\* Evaluate lines 23-27: the record of a case
Record(scores, now) ==
    [score |-> scores, table_html |-> scores, upload_time |-> now]

\* the dict as a set of entries
AsSet(c) == {c[i] : i \in 1..Len(c)}

InitStore ==
    /\ StoreIdle
    /\ text = <<>>
    /\ max_tokens = 1
    /\ blocks = <<>>
    /\ split_pc = "input"
    /\ PldIdle
    /\ GeIdle
    /\ TableIdle

evalVars == <<e_pc, e_name, e_scores, e_cache>>

manageVars == <<m_pc, m_event, m_cache, m_view, last_selected_case,
                delete_mode, delete_success>>

\* Evaluate lines 54-82: Evaluate is pressed with a case name; the cache is
\* read and a name that is already a key is refused
E_Submit ==
    /\ e_pc = "idle"
    /\ clock < MaxEvals
    /\ \E case_name \in CaseNames :
          IF NameTaken(cache_file, case_name)
          THEN UNCHANGED <<e_pc, e_name>>
          ELSE /\ e_pc' = "evaluating"
               /\ e_name' = case_name
    /\ UNCHANGED <<cache_file, clock, e_scores, e_cache, manageVars, tableVars, intended,
                   splitVars, pldVars, geVars, tableVars>>

\* Evaluate lines 84-150 and lines 16-22: the evaluation call ends; on an
\* error nothing is saved, else save_case_cache is entered and loads the dict
E_Evaluated ==
    /\ e_pc = "evaluating"
    /\ \/ /\ e_pc' = "idle"
          /\ e_name' = None
          /\ UNCHANGED <<e_scores, e_cache>>
       \/ \E scores \in ScoreValues :
             /\ e_scores' = scores
             /\ e_cache' = cache_file
             /\ e_pc' = "saving"
             /\ UNCHANGED e_name
    /\ UNCHANGED <<cache_file, clock, manageVars, tableVars, intended,
                   splitVars, pldVars, geVars, tableVars>>

\* Evaluate lines 23-29: the record is put into the loaded dict and the whole
\* dict is written back
E_Write ==
    /\ e_pc = "saving"
    /\ clock' = clock + 1
    /\ cache_file' = SetItem(e_cache, e_name, Record(e_scores, clock'))
    /\ intended' = SetItem(intended, e_name, Record(e_scores, clock'))
    /\ e_pc' = "idle"
    /\ e_name' = None
    /\ e_scores' = None
    /\ e_cache' = <<>>
    /\ UNCHANGED <<manageVars, tableVars, splitVars, pldVars, geVars, tableVars>>

\* a widget event of the Manage Cases page
Event(type, name) == [type |-> type, name |-> name]

\* the events the widgets drawn by the last run allow
UserEvents ==
    {Event("open", None)}
    \cup {Event("select", n) : n \in {m_view.options[i] : i \in 1..Len(m_view.options)}
                                     \ {m_view.selected}}
    \cup (IF m_view.selected # None
          THEN {Event("rename", n) : n \in CaseNames} \cup {Event("delete", None)}
          ELSE {})
    \cup (IF m_view.confirm
          THEN {Event("confirm", None), Event("cancel", None)}
          ELSE {})

\* Manage Cases lines 17-22: a script run starts (on a widget event, or as
\* the rerun the last run asked for) and loads the dict
M_Load ==
    /\ m_pc \in {"idle", "rerun"}
    /\ \E ev \in (IF m_pc = "rerun" THEN {Event("rerun", None)} ELSE UserEvents) :
          m_event' = ev
    /\ m_cache' = cache_file
    /\ m_pc' = "loaded"
    /\ UNCHANGED <<cache_file, clock, evalVars, m_view, last_selected_case,
                   delete_mode, delete_success, intended,
                   splitVars, pldVars, geVars, tableVars>>

\* line 36: the selectbox keeps its value while its options are the same and
\* falls back to the first option when they have changed
SelectedCase ==
    IF Keys(m_cache) = m_view.options
    THEN IF m_event.type = "select" THEN m_event.name ELSE m_view.selected
    ELSE Keys(m_cache)[1]

\* lines 38-41 left out: the delete modes are kept when the case switches
ModesKeptOnSwitch(sel, withKey) ==
    IF withKey /\ sel \notin DOMAIN delete_mode
    THEN [k \in DOMAIN delete_mode \cup {sel} |->
             IF k = sel THEN FALSE ELSE delete_mode[k]]
    ELSE delete_mode

\* lines 38-41 and 63-64: the delete modes after a possible reset on a switch
\* of case and with the selected case's key present
ModesAfterSwitch(sel, withKey) ==
    LET reset == IF last_selected_case # sel
                 THEN [k \in DOMAIN delete_mode |-> FALSE] ELSE delete_mode
    IN IF withKey /\ sel \notin DOMAIN reset
       THEN [k \in DOMAIN reset \cup {sel} |->
                IF k = sel THEN FALSE ELSE reset[k]]
       ELSE reset

\* Manage Cases lines 24-85: the rest of the script run
M_Run ==
    /\ m_pc = "loaded"
    /\ IF m_cache = <<>>
       THEN \* lines 32-33
            /\ m_view' = NoView
            /\ m_pc' = "idle"
            /\ UNCHANGED <<cache_file, intended, last_selected_case,
                           delete_mode, delete_success>>
       ELSE LET sel == SelectedCase
                drawn == [selected |-> sel, options |-> Keys(m_cache),
                          confirm |-> FALSE]
                modes == ModesAfterSwitch(sel, TRUE)
                shown == m_view.confirm /\ m_view.selected = sel
            IN /\ last_selected_case' = sel
               /\ IF m_event.type = "rename" /\ m_event.name # sel
                     /\ ~NameTaken(m_cache, m_event.name)
                  THEN \* lines 57-61
                       /\ cache_file' = Renamed(m_cache, sel, m_event.name)
                       /\ intended' = IF HasKey(intended, sel)
                                         /\ ~HasKey(intended, m_event.name)
                                      THEN Renamed(intended, sel, m_event.name)
                                      ELSE intended
                       /\ delete_mode' = ModesAfterSwitch(sel, FALSE)
                       /\ delete_success' = ""
                       /\ m_view' = drawn
                       /\ m_pc' = "rerun"
                  ELSE IF m_event.type = "delete"
                  THEN \* lines 65-67
                       /\ delete_mode' = [modes EXCEPT ![sel] = TRUE]
                       /\ delete_success' = ""
                       /\ m_view' = drawn
                       /\ m_pc' = "rerun"
                       /\ UNCHANGED <<cache_file, intended>>
                  ELSE IF m_event.type = "confirm" /\ modes[sel] /\ shown
                  THEN \* lines 71-77
                       /\ cache_file' = Pop(m_cache, sel)
                       /\ intended' = Pop(intended, sel)
                       /\ delete_success' = "Deleted"
                       /\ delete_mode' = [modes EXCEPT ![sel] = FALSE]
                       /\ m_view' = drawn
                       /\ m_pc' = "rerun"
                  ELSE IF m_event.type = "cancel" /\ modes[sel] /\ shown
                  THEN \* lines 79-81
                       /\ delete_mode' = [modes EXCEPT ![sel] = FALSE]
                       /\ delete_success' = ""
                       /\ m_view' = drawn
                       /\ m_pc' = "rerun"
                       /\ UNCHANGED <<cache_file, intended>>
                  ELSE \* the script runs to its end, lines 82-85
                       /\ delete_mode' = modes
                       /\ delete_success' = ""
                       /\ m_view' = [drawn EXCEPT !.confirm = modes[sel]]
                       /\ m_pc' = "idle"
                       /\ UNCHANGED <<cache_file, intended>>
    /\ UNCHANGED <<clock, evalVars, m_event, m_cache,
                   splitVars, pldVars, geVars, tableVars>>

NextStore ==
    \/ E_Submit
    \/ E_Evaluated
    \/ E_Write
    \/ M_Load
    \/ M_Run

SpecStore == InitStore /\ [][NextStore]_vars

-----------------------------------------------------------------------------
(* One user working through the two pages: a page is used only when the    *)
(* script run (and save) of the other page is over.                        *)

\* Evaluate line 53: Evaluate is pressed while Manage Cases is at rest
Seq_E_Submit == m_pc = "idle" /\ E_Submit

\* Manage Cases: a widget is used (or the pending rerun starts) while the
\* Evaluate page is at rest
Seq_M_Load == e_pc = "idle" /\ M_Load

NextSingleUser ==
    \/ Seq_E_Submit
    \/ E_Evaluated
    \/ E_Write
    \/ Seq_M_Load
    \/ M_Run

SpecSingleUser == InitStore /\ [][NextSingleUser]_vars

-----------------------------------------------------------------------------
(* Claims about the case store *)

\* C10 (no lost update): whenever no page is in the middle of a script run
\* or a save, the store holds what the completed saves, renames and deletes
\* together amount to: no write has erased the effect of another.
C10_NoLostUpdate ==
    (e_pc = "idle" /\ m_pc = "idle") => AsSet(cache_file) = AsSet(intended)

\* a script run of Manage Cases that handles a press of Rename, typed name
\* new, on a store that is not empty
RenamePressed(new) ==
    /\ m_pc = "loaded"
    /\ m_pc' # "loaded"
    /\ m_event = Event("rename", new)
    /\ cache_file # <<>>

\* C11 (rename changes only the key): for one user working through the
\* pages, a Rename of the selected case A to a name B that is not a key of
\* the store removes key A, adds key B holding
\* A's record (score, table_html, upload_time) unchanged, and leaves every
\* other key with the record it had.
C11_RenameOnlyKey ==
    [][\A new \in CaseNames :
          (RenamePressed(new) /\ new # SelectedCase /\ ~HasKey(cache_file, new))
          => /\ HasKey(cache_file, SelectedCase)
             /\ ~HasKey(cache_file', SelectedCase)
             /\ HasKey(cache_file', new)
             /\ Get(cache_file', new) = Get(cache_file, SelectedCase)
             /\ \A n \in CaseNames \ {SelectedCase, new} :
                   /\ HasKey(cache_file', n) = HasKey(cache_file, n)
                   /\ HasKey(cache_file, n)
                      => Get(cache_file', n) = Get(cache_file, n)
             /\ Len(cache_file') = Len(cache_file)]_vars

\* a rename has just been written to a store of two cases: the new key holds
\* the record saved under the old one, the other case is still there
C11_Witness ==
    /\ m_pc = "rerun"
    /\ m_event.type = "rename"
    /\ Len(m_cache) = 2
    /\ ~HasKey(m_cache, m_event.name)
    /\ HasKey(cache_file, m_event.name)
    /\ Len(cache_file) = 2

\* C17 (case-name uniqueness in sequential use): for one user working
\* through the pages, an evaluation is started only under a name that is
\* not a key of the store (a submission under a name that is a key changes
\* nothing at all), and starting it leaves the store unchanged; a Rename to a name that is already a key leaves the store
\* unchanged; and no step ever replaces the record held under a key.
C17_NamesUnique ==
    [][/\ (e_pc = "idle" /\ e_pc' = "evaluating")
          => (~HasKey(cache_file, e_name') /\ cache_file' = cache_file)
       /\ (m_pc = "loaded" /\ m_pc' # "loaded" /\ m_event.type = "rename"
           /\ HasKey(cache_file, m_event.name))
          => cache_file' = cache_file
       /\ \A n \in CaseNames :
             (HasKey(cache_file, n) /\ HasKey(cache_file', n))
             => Get(cache_file', n) = Get(cache_file, n)]_vars

\* a Rename of one of two cases to the name of the other has been refused
C17_Witness ==
    /\ m_pc = "idle"
    /\ m_event.type = "rename"
    /\ m_event.name # m_view.selected
    /\ HasKey(cache_file, m_event.name)
    /\ Len(cache_file) = 2
    /\ cache_file = m_cache

\* the records held by a store
Records(c) == {c[i].rec : i \in 1..Len(c)}

\* the delete mode of case n is on
ModeOn(modes, n) == n \in DOMAIN modes /\ modes[n]

\* a script run of Manage Cases handling an event of one of the given types
ManageRun(types) ==
    m_pc = "loaded" /\ m_pc' # "loaded" /\ m_event.type \in types

\* C18 (two-step delete): for one user working through the pages,
\*  - a record leaves the store only in a run that handles Confirm for the
\*    selected case while that case's delete mode is on and the selection
\*    has not moved since;
\*  - a delete mode is turned on only by a run that handles Delete, for the
\*    case selected in that run;
\*  - a run that handles Delete, Cancel or a change of selection leaves the
\*    store unchanged;
\*  - when the selected case changes, the delete mode of every other case
\*    is off afterwards;
\*  - after a run that handles Confirm or Cancel, the delete mode of the
\*    case whose buttons were shown is off.
C18_TwoStepDelete ==
    [][/\ \A n \in CaseNames :
             (HasKey(cache_file, n)
              /\ Get(cache_file, n) \notin Records(cache_file'))
             => /\ ManageRun({"confirm"})
                /\ n = SelectedCase
                /\ n = last_selected_case
                /\ ModeOn(delete_mode, n)
       /\ \A n \in CaseNames :
             (~ModeOn(delete_mode, n) /\ ModeOn(delete_mode', n))
             => (ManageRun({"delete"}) /\ n = SelectedCase)
       /\ ManageRun({"delete", "cancel", "select"})
          => cache_file' = cache_file
       /\ last_selected_case' # last_selected_case
          => \A n \in CaseNames \ {last_selected_case'} :
                ~ModeOn(delete_mode', n)
       /\ ManageRun({"confirm", "cancel"})
          => ~ModeOn(delete_mode', m_view.selected)]_vars

\* Confirm has just removed one of two cases
C18_Witness ==
    /\ m_pc = "rerun"
    /\ m_event.type = "confirm"
    /\ delete_success = "Deleted"
    /\ Len(m_cache) = 2
    /\ Len(cache_file) = 1
    /\ ~ModeOn(delete_mode, last_selected_case)

=============================================================================
